---- MODULE Spec2Model ----
(***************************************************************************)
(* Model of the transaction engine of src/src/main.rs: the client map, the *)
(* transaction log, the set of disputed transactions, the validation gate  *)
(* and the five operations, driven record by record as from_csv_reader     *)
(* does.  Decimal amounts are modelled as integers (a fixed number of      *)
(* fractional digits scaled away); all arithmetic of the engine is exact   *)
(* addition, subtraction and comparison, which integers reproduce.         *)
(***************************************************************************)
EXTENDS Integers, FiniteSets, TLC

\* Bounds of the model: client ids 1..MaxClient, transaction ids 1..MaxTx,
\* record amounts -1..MaxAmount, and balances kept within -MaxFunds..MaxFunds
\* (a step that would take a balance out of that range is not taken).
MaxClient == 2
MaxTx == 2
MaxAmount == 2
MaxFunds == 4

ClientIds == 1..MaxClient
TxIds == 1..MaxTx
\* Row.amount is an Option<Decimal>, modelled as a set of at most one
\* number: None is the empty set, Some(a) is {a}.
None == {}
Some(a) == {a}
Amounts == {None} \cup {Some(a) : a \in -1..MaxAmount}

\* The record kinds a row can declare; "deposits" stands for every string
\* that is none of the five recognised kinds.
Ops == {"deposit", "withdrawal", "dispute", "resolve", "chargeback", "deposits"}

VARIABLES
    engine,   \* the TransactionEngine: clients, transactions, disputed
    net       \* per client, the sum of the net effects applied to it so far

vars == <<engine, net>>

\* HashMap::insert and HashMap::remove on a map modelled as a function.
Insert(m, k, v) == [x \in (DOMAIN m) \cup {k} |-> IF x = k THEN v ELSE m[x]]
Remove(m, k) == [x \in (DOMAIN m) \ {k} |-> m[x]]

EmptyMap == [x \in {} |-> 0]

\* ClientInfo::new
ClientInfo_new(amount) == [available |-> amount, held |-> 0, locked |-> FALSE]

\* ClientInfo::total
total(info) == info.available + info.held

\* TransactionEngine::new
new == [clients |-> EmptyMap, transactions |-> EmptyMap, disputed |-> {}]

\* Decimal::is_sign_negative on the model's integers.
is_sign_negative(amount) == amount < 0

\* Decimal::set_sign_negative(true): the amount with its sign forced negative.
set_sign_negative(amount) == IF amount > 0 THEN -amount ELSE amount

\* The lock check of the gate: the addressed client exists and is locked.
client_locked(e, client) ==
    client \in DOMAIN e.clients /\ e.clients[client].locked

\* Variant of valid whose lock rule looks at deposits and withdrawals only.
valid_lock_deposits_only(e, op, tx, client, amount) ==
    LET should_exist == op \notin {"deposit", "withdrawal"}
        exist_check == IF tx \in DOMAIN e.transactions
                       THEN should_exist
                       ELSE ~should_exist
    IN  /\ exist_check
        /\ ~is_sign_negative(amount)
        /\ ~(~should_exist /\ client_locked(e, client))

\* Variant of valid without the lock rule.
valid_skips_lock(e, op, tx, client, amount) ==
    LET should_exist == op \notin {"deposit", "withdrawal"}
        exist_check == IF tx \in DOMAIN e.transactions
                       THEN should_exist
                       ELSE ~should_exist
    IN  /\ exist_check
        /\ ~is_sign_negative(amount)

\* Variant of valid that lets a deposit or withdrawal reuse a logged tx id.
valid_allows_duplicates(e, op, tx, client, amount) ==
    LET should_exist == op \notin {"deposit", "withdrawal"}
        exist_check == IF tx \in DOMAIN e.transactions
                       THEN TRUE
                       ELSE ~should_exist
    IN  /\ exist_check
        /\ ~is_sign_negative(amount)
        /\ ~client_locked(e, client)

\* Variant of valid that lets a dispute, resolve or chargeback name a tx id
\* that is not logged.
valid_allows_unknown(e, op, tx, client, amount) ==
    LET should_exist == op \notin {"deposit", "withdrawal"}
        exist_check == IF tx \in DOMAIN e.transactions
                       THEN should_exist
                       ELSE TRUE
    IN  /\ exist_check
        /\ ~is_sign_negative(amount)
        /\ ~client_locked(e, client)

\* TransactionEngine::valid
valid(e, op, tx, client, amount) ==
    LET should_exist == op \notin {"deposit", "withdrawal"}
        exist_check == IF tx \in DOMAIN e.transactions
                       THEN should_exist
                       ELSE ~should_exist
    IN  /\ exist_check
        /\ ~is_sign_negative(amount)
        /\ ~client_locked(e, client)

\* Variant of deposit that credits held instead of available on an account
\* that exists.
deposit_into_held(e, tx, client, amount) ==
    LET logged == [e EXCEPT !.transactions =
                       Insert(@, tx, [client |-> client, amount |-> amount])]
    IN  IF client \in DOMAIN logged.clients
        THEN [logged EXCEPT !.clients[client].held = @ + amount]
        ELSE [logged EXCEPT !.clients = Insert(@, client, ClientInfo_new(amount))]

\* TransactionEngine::deposit
deposit(e, tx, client, amount) ==
    LET logged == [e EXCEPT !.transactions =
                       Insert(@, tx, [client |-> client, amount |-> amount])]
    IN  IF client \in DOMAIN logged.clients
        THEN [logged EXCEPT !.clients[client].available = @ + amount]
        ELSE [logged EXCEPT !.clients = Insert(@, client, ClientInfo_new(amount))]

\* Variant of withdraw that leaves the log entry in place when the funds do
\* not cover the amount.
withdraw_keeps_entry(e, tx, client, amount0) ==
    LET amount == set_sign_negative(amount0)
        logged == [e EXCEPT !.transactions =
                       Insert(@, tx, [client |-> client, amount |-> amount])]
    IN  IF client \in DOMAIN logged.clients
        THEN IF logged.clients[client].available + amount >= 0
             THEN [logged EXCEPT !.clients[client].available = @ + amount]
             ELSE logged
        ELSE [logged EXCEPT !.transactions = Remove(@, tx)]

\* Variant of withdraw that leaves the log entry in place when the client
\* has no account.
withdraw_no_client_keeps_entry(e, tx, client, amount0) ==
    LET amount == set_sign_negative(amount0)
        logged == [e EXCEPT !.transactions =
                       Insert(@, tx, [client |-> client, amount |-> amount])]
    IN  IF client \in DOMAIN logged.clients
        THEN IF logged.clients[client].available + amount >= 0
             THEN [logged EXCEPT !.clients[client].available = @ + amount]
             ELSE [logged EXCEPT !.transactions = Remove(@, tx)]
        ELSE logged

\* TransactionEngine::withdraw
withdraw(e, tx, client, amount0) ==
    LET amount == set_sign_negative(amount0)
        logged == [e EXCEPT !.transactions =
                       Insert(@, tx, [client |-> client, amount |-> amount])]
    IN  IF client \in DOMAIN logged.clients
        THEN IF logged.clients[client].available + amount >= 0
             THEN [logged EXCEPT !.clients[client].available = @ + amount]
             ELSE [logged EXCEPT !.transactions = Remove(@, tx)]
        ELSE [logged EXCEPT !.transactions = Remove(@, tx)]

\* Variant of dispute without the comparison of the amount with the
\* available funds.
dispute_skips_available_check(e, tx, client) ==
    IF tx \in e.disputed
    THEN e
    ELSE LET opened == [e EXCEPT !.disputed = @ \cup {tx}]
         IN  IF tx \notin DOMAIN opened.transactions
             THEN opened
             ELSE LET tx_entry == opened.transactions[tx]
                  IN  IF tx_entry.client # client
                      THEN opened
                      ELSE IF client \notin DOMAIN opened.clients
                      THEN opened
                      ELSE [opened EXCEPT
                               !.clients[client].available = @ - tx_entry.amount,
                               !.clients[client].held = @ + tx_entry.amount]

\* Variant of dispute that takes the amount out of available and forgets to
\* add it to held.
dispute_drops_held(e, tx, client) ==
    IF tx \in e.disputed
    THEN e
    ELSE LET opened == [e EXCEPT !.disputed = @ \cup {tx}]
         IN  IF tx \notin DOMAIN opened.transactions
             THEN opened
             ELSE LET tx_entry == opened.transactions[tx]
                  IN  IF tx_entry.client # client
                      THEN opened
                      ELSE IF client \notin DOMAIN opened.clients
                      THEN opened
                      ELSE IF tx_entry.amount > opened.clients[client].available
                      THEN opened
                      ELSE [opened EXCEPT
                               !.clients[client].available = @ - tx_entry.amount]

\* Variant of dispute without the test that the transaction is already open.
dispute_reopens(e, tx, client) ==
    LET opened == [e EXCEPT !.disputed = @ \cup {tx}]
    IN  IF tx \notin DOMAIN opened.transactions
        THEN opened
        ELSE LET tx_entry == opened.transactions[tx]
             IN  IF tx_entry.client # client
                 THEN opened
                 ELSE IF client \notin DOMAIN opened.clients
                 THEN opened
                 ELSE IF tx_entry.amount > opened.clients[client].available
                 THEN opened
                 ELSE [opened EXCEPT
                          !.clients[client].available = @ - tx_entry.amount,
                          !.clients[client].held = @ + tx_entry.amount]

\* TransactionEngine::dispute
dispute(e, tx, client) ==
    IF tx \in e.disputed
    THEN e
    ELSE LET opened == [e EXCEPT !.disputed = @ \cup {tx}]
         IN  IF tx \notin DOMAIN opened.transactions
             THEN opened
             ELSE LET tx_entry == opened.transactions[tx]
                  IN  IF tx_entry.client # client
                      THEN opened
                      ELSE IF client \notin DOMAIN opened.clients
                      THEN opened
                      ELSE IF tx_entry.amount > opened.clients[client].available
                      THEN opened
                      ELSE [opened EXCEPT
                               !.clients[client].available = @ - tx_entry.amount,
                               !.clients[client].held = @ + tx_entry.amount]

\* TransactionEngine::resolve
resolve(e, tx, client) ==
    IF tx \notin e.disputed
    THEN e
    ELSE LET closed == [e EXCEPT !.disputed = @ \ {tx}]
         IN  IF tx \notin DOMAIN closed.transactions
             THEN closed
             ELSE LET tx_entry == closed.transactions[tx]
                  IN  IF tx_entry.client # client
                      THEN closed
                      ELSE IF client \notin DOMAIN closed.clients
                      THEN closed
                      ELSE IF tx_entry.amount > closed.clients[client].held
                      THEN closed
                      ELSE [closed EXCEPT
                               !.clients[client].available = @ + tx_entry.amount,
                               !.clients[client].held = @ - tx_entry.amount]

\* Variant of chargeback that locks the account before comparing the amount
\* with the held funds.
chargeback_locks_first(e, tx, client) ==
    IF tx \notin e.disputed
    THEN e
    ELSE LET closed == [e EXCEPT !.disputed = @ \ {tx}]
         IN  IF tx \notin DOMAIN closed.transactions
             THEN closed
             ELSE LET tx_entry == closed.transactions[tx]
                  IN  IF tx_entry.client # client
                      THEN closed
                      ELSE IF client \notin DOMAIN closed.clients
                      THEN closed
                      ELSE IF tx_entry.amount > closed.clients[client].held
                      THEN [closed EXCEPT !.clients[client].locked = TRUE]
                      ELSE [closed EXCEPT
                               !.clients[client].held = @ - tx_entry.amount,
                               !.clients[client].locked = TRUE]

\* Variant of chargeback without the comparison of the amount with the held
\* funds.
chargeback_skips_held_check(e, tx, client) ==
    IF tx \notin e.disputed
    THEN e
    ELSE LET closed == [e EXCEPT !.disputed = @ \ {tx}]
         IN  IF tx \notin DOMAIN closed.transactions
             THEN closed
             ELSE LET tx_entry == closed.transactions[tx]
                  IN  IF tx_entry.client # client
                      THEN closed
                      ELSE IF client \notin DOMAIN closed.clients
                      THEN closed
                      ELSE [closed EXCEPT
                               !.clients[client].held = @ - tx_entry.amount,
                               !.clients[client].locked = TRUE]

\* TransactionEngine::chargeback
chargeback(e, tx, client) ==
    IF tx \notin e.disputed
    THEN e
    ELSE LET closed == [e EXCEPT !.disputed = @ \ {tx}]
         IN  IF tx \notin DOMAIN closed.transactions
             THEN closed
             ELSE LET tx_entry == closed.transactions[tx]
                  IN  IF tx_entry.client # client
                      THEN closed
                      ELSE IF client \notin DOMAIN closed.clients
                      THEN closed
                      ELSE IF tx_entry.amount > closed.clients[client].held
                      THEN closed
                      ELSE [closed EXCEPT
                               !.clients[client].held = @ - tx_entry.amount,
                               !.clients[client].locked = TRUE]

\* row.amount.unwrap_or_else(|| 0.into())
unwrap_or_zero(amount) ==
    IF amount = None THEN 0 ELSE CHOOSE a \in amount : TRUE

\* Variant of dispatch whose default arm handles the row as a deposit.
dispatch_default_deposit(e, op, tx, client, amount) ==
    CASE op = "withdrawal" -> withdraw(e, tx, client, amount)
      [] op = "dispute"    -> dispute(e, tx, client)
      [] op = "resolve"    -> resolve(e, tx, client)
      [] op = "chargeback" -> chargeback(e, tx, client)
      [] OTHER             -> deposit(e, tx, client, amount)

\* The match on row.op of from_csv_reader.
dispatch(e, op, tx, client, amount) ==
    CASE op = "deposit"    -> deposit(e, tx, client, amount)
      [] op = "withdrawal" -> withdraw(e, tx, client, amount)
      [] op = "dispute"    -> dispute(e, tx, client)
      [] op = "resolve"    -> resolve(e, tx, client)
      [] op = "chargeback" -> chargeback(e, tx, client)
      [] OTHER             -> e

\* One iteration of the loop of from_csv_reader on a decoded row.
process(e, r) ==
    LET amount == unwrap_or_zero(r.amount)
    IN  IF ~valid(e, r.op, r.tx, r.client, amount)
        THEN e
        ELSE dispatch(e, r.op, r.tx, r.client, amount)

\* The diagnostic valid prints when it returns false, by the check that
\* fails first; NoDiagnostic when it returns true.
NoDiagnostic == "none"

valid_diagnostic(e, op, tx, client, amount) ==
    LET should_exist == op \notin {"deposit", "withdrawal"}
    IN  IF tx \in DOMAIN e.transactions /\ ~should_exist
        THEN "Transaction already exists"
        ELSE IF tx \notin DOMAIN e.transactions /\ should_exist
        THEN "Transaction does not exist"
        ELSE IF is_sign_negative(amount)
        THEN "Invalid negative amount"
        ELSE IF client_locked(e, client)
        THEN "Client locked"
        ELSE NoDiagnostic

\* The diagnostic withdraw prints.
withdraw_diagnostic(e, tx, client, amount0) ==
    LET amount == set_sign_negative(amount0)
    IN  IF client \in DOMAIN e.clients
        THEN IF e.clients[client].available + amount >= 0
             THEN NoDiagnostic
             ELSE "Not enough funds"
        ELSE "No such client"

\* The diagnostic dispute prints.
dispute_diagnostic(e, tx, client) ==
    IF tx \in e.disputed
    THEN "Transaction already disputed"
    ELSE IF tx \notin DOMAIN e.transactions
    THEN NoDiagnostic
    ELSE IF e.transactions[tx].client # client
    THEN "Disputed transaction doesn't match the client id"
    ELSE IF client \notin DOMAIN e.clients
    THEN NoDiagnostic
    ELSE IF e.transactions[tx].amount > e.clients[client].available
    THEN "Disputed amount larger than available funds"
    ELSE NoDiagnostic

\* The diagnostic resolve prints.
resolve_diagnostic(e, tx, client) ==
    IF tx \notin e.disputed
    THEN "Transaction not disputed"
    ELSE IF tx \notin DOMAIN e.transactions
    THEN NoDiagnostic
    ELSE IF e.transactions[tx].client # client
    THEN "Resolved transaction doesn't match the client id"
    ELSE IF client \notin DOMAIN e.clients
    THEN NoDiagnostic
    ELSE IF e.transactions[tx].amount > e.clients[client].held
    THEN "Resolved amount larger than held funds"
    ELSE NoDiagnostic

\* The diagnostic chargeback prints.
chargeback_diagnostic(e, tx, client) ==
    IF tx \notin e.disputed
    THEN "Transaction not disputed"
    ELSE IF tx \notin DOMAIN e.transactions
    THEN NoDiagnostic
    ELSE IF e.transactions[tx].client # client
    THEN "Charged-back transaction doesn't match the client id"
    ELSE IF client \notin DOMAIN e.clients
    THEN NoDiagnostic
    ELSE IF e.transactions[tx].amount > e.clients[client].held
    THEN "Charged-back amount larger than held funds"
    ELSE NoDiagnostic

\* The diagnostic one iteration of the loop of from_csv_reader prints on a
\* decoded row: that of the gate when the gate rejects the row, else that of
\* the handler the row is dispatched to; NoDiagnostic when the row is applied.
diagnostic(e, r) ==
    LET amount == unwrap_or_zero(r.amount)
    IN  IF ~valid(e, r.op, r.tx, r.client, amount)
        THEN valid_diagnostic(e, r.op, r.tx, r.client, amount)
        ELSE CASE r.op = "deposit"    -> NoDiagnostic
               [] r.op = "withdrawal" -> withdraw_diagnostic(e, r.tx, r.client, amount)
               [] r.op = "dispute"    -> dispute_diagnostic(e, r.tx, r.client)
               [] r.op = "resolve"    -> resolve_diagnostic(e, r.tx, r.client)
               [] r.op = "chargeback" -> chargeback_diagnostic(e, r.tx, r.client)
               [] OTHER               -> "Unknown transaction type"

Row(op, client, tx, amount) ==
    [op |-> op, client |-> client, tx |-> tx, amount |-> amount]

\* The rows the reader can decode.
Rows ==
    {Row(op, client, tx, amount) :
        op \in Ops, client \in ClientIds, tx \in TxIds, amount \in Amounts}

Logged(e, tx) == tx \in DOMAIN e.transactions
HasAccount(e, client) == client \in DOMAIN e.clients

\* info.total() of a client, 0 for a client without an account.
TotalOf(e, client) ==
    IF HasAccount(e, client) THEN total(e.clients[client]) ELSE 0

\* The net effect on client c of row r, which took the engine from e to post:
\* a deposit or withdrawal that entered the log adds its signed amount, a
\* chargeback that locked the account takes the logged amount away.
NetEffect(e, r, post, c) ==
    LET amount == unwrap_or_zero(r.amount)
        entered == ~Logged(e, r.tx) /\ Logged(post, r.tx)
        charged == /\ r.op = "chargeback"
                   /\ HasAccount(e, c)
                   /\ ~e.clients[c].locked
                   /\ post.clients[c].locked
    IN  CASE r.client = c /\ r.op = "deposit" /\ entered    -> amount
          [] r.client = c /\ r.op = "withdrawal" /\ entered -> 0 - amount
          [] r.client = c /\ charged  -> 0 - e.transactions[r.tx].amount
          [] OTHER -> 0

\* Balances within the range the model explores.
InRange(e) ==
    \A c \in DOMAIN e.clients :
        /\ e.clients[c].available \in -MaxFunds..MaxFunds
        /\ e.clients[c].held \in -MaxFunds..MaxFunds

Init ==
    /\ engine = new
    /\ net = [c \in ClientIds |-> 0]

\* The engine after the loop body of from_csv_reader has run on row r.
Post(r) == process(engine, r)

\* The net effects once row r has been processed.
NetAfter(r) ==
    [c \in ClientIds |-> net[c] + NetEffect(engine, r, Post(r), c)]

Deposit ==
    \E client \in ClientIds, tx \in TxIds, amount \in Amounts :
        LET r == Row("deposit", client, tx, amount)
        IN  /\ InRange(Post(r))
            /\ engine' = Post(r)
            /\ net' = NetAfter(r)

Withdrawal ==
    \E client \in ClientIds, tx \in TxIds, amount \in Amounts :
        LET r == Row("withdrawal", client, tx, amount)
        IN  /\ InRange(Post(r))
            /\ engine' = Post(r)
            /\ net' = NetAfter(r)

Dispute ==
    \E client \in ClientIds, tx \in TxIds, amount \in Amounts :
        LET r == Row("dispute", client, tx, amount)
        IN  /\ InRange(Post(r))
            /\ engine' = Post(r)
            /\ net' = NetAfter(r)

Resolve ==
    \E client \in ClientIds, tx \in TxIds, amount \in Amounts :
        LET r == Row("resolve", client, tx, amount)
        IN  /\ InRange(Post(r))
            /\ engine' = Post(r)
            /\ net' = NetAfter(r)

Chargeback ==
    \E client \in ClientIds, tx \in TxIds, amount \in Amounts :
        LET r == Row("chargeback", client, tx, amount)
        IN  /\ InRange(Post(r))
            /\ engine' = Post(r)
            /\ net' = NetAfter(r)

\* A row whose kind is none of the five: it goes through the gate and then
\* falls to the default arm of the match.
UnknownOp ==
    \E client \in ClientIds, tx \in TxIds, amount \in Amounts :
        LET r == Row("deposits", client, tx, amount)
        IN  /\ InRange(Post(r))
            /\ engine' = Post(r)
            /\ net' = NetAfter(r)

\* A row that does not decode (the Err arm) is reported and skipped.
Invalid == UNCHANGED vars

Next ==
    \/ Deposit
    \/ Withdrawal
    \/ Dispute
    \/ Resolve
    \/ Chargeback
    \/ UnknownOp
    \/ Invalid

Spec == Init /\ [][Next]_vars

(***************************************************************************)
(* Properties.  Each one speaks of a state the engine can be in and of     *)
(* what the loop body does to it on every row the reader can hand over:    *)
(* Post(r) is the engine after row r.                                      *)
(***************************************************************************)

DisputeFamily == {"dispute", "resolve", "chargeback"}

\* The amount the loop body works with for row r.
AmountOf(r) == unwrap_or_zero(r.amount)

\* Row r passes the validation gate in the current state.
Passes(r) == valid(engine, r.op, r.tx, r.client, AmountOf(r))

\* Row r names a logged transaction that is not open and is owned by the
\* row's client.
NamesOwnClosedTx(r) ==
    /\ Logged(engine, r.tx)
    /\ r.tx \notin engine.disputed
    /\ engine.transactions[r.tx].client = r.client

C2_LockedRejectsDepositWithdrawal ==
    \A r \in Rows :
        (r.op \in {"deposit", "withdrawal"} /\ client_locked(engine, r.client))
        => /\ Post(r).clients[r.client].available
                = engine.clients[r.client].available
           /\ Post(r).clients[r.client].held = engine.clients[r.client].held
           /\ Logged(Post(r), r.tx) = Logged(engine, r.tx)
           /\ Post(r).transactions = engine.transactions
           /\ Post(r).disputed = engine.disputed

\* A locked client is sent a deposit of a positive amount under a fresh tx id.
C2_Witness ==
    \E r \in Rows :
        /\ r.op = "deposit"
        /\ AmountOf(r) > 0
        /\ ~Logged(engine, r.tx)
        /\ client_locked(engine, r.client)
        /\ ~Logged(Post(r), r.tx)

\* C3: locked is monotonic: an account is created unlocked, no account is
\* removed, a locked account stays locked over every record, and an account
\* goes from unlocked to locked only on a chargeback record of this client
\* that took the logged amount of an open transaction it owns out of held.
C3_LockedMonotonic ==
    \A r \in Rows : \A c \in ClientIds :
        /\ (~HasAccount(engine, c) /\ HasAccount(Post(r), c))
           => ~Post(r).clients[c].locked
        /\ HasAccount(engine, c) => HasAccount(Post(r), c)
        /\ (HasAccount(engine, c) /\ engine.clients[c].locked)
           => Post(r).clients[c].locked
        /\ ( /\ HasAccount(engine, c)
             /\ ~engine.clients[c].locked
             /\ Post(r).clients[c].locked )
           => /\ r.op = "chargeback"
              /\ r.client = c
              /\ r.tx \in engine.disputed
              /\ Logged(engine, r.tx)
              /\ engine.transactions[r.tx].client = c
              /\ Post(r).clients[c].held
                    = engine.clients[c].held - engine.transactions[r.tx].amount

\* One client is locked, and a chargeback of a nonzero amount is about to
\* lock another, still unlocked, one.
C3_Witness ==
    \E r \in Rows : \E c \in ClientIds :
        /\ client_locked(engine, c)
        /\ c # r.client
        /\ r.op = "chargeback"
        /\ HasAccount(engine, r.client)
        /\ ~engine.clients[r.client].locked
        /\ Logged(engine, r.tx)
        /\ engine.transactions[r.tx].amount # 0
        /\ Post(r).clients[r.client].locked
        /\ Post(r).clients[c].locked

\* C4: the available funds of every account are never below zero.
C4_AvailableNeverNegative ==
    \A c \in DOMAIN engine.clients : engine.clients[c].available >= 0

\* C5: a deposit or withdrawal whose tx id is already logged is rejected
\* before any mutation, whichever client it names: no account changes, no
\* account is created, the logged entry keeps its owner and amount.
C5_DuplicateTxRejected ==
    \A r \in Rows :
        (r.op \in {"deposit", "withdrawal"} /\ Logged(engine, r.tx))
        => /\ Post(r).clients = engine.clients
           /\ DOMAIN Post(r).clients = DOMAIN engine.clients
           /\ Post(r).transactions[r.tx] = engine.transactions[r.tx]
           /\ Post(r).transactions = engine.transactions

\* A deposit of a positive amount reuses the tx id of a transaction owned by
\* another client, and names a client that has no account yet.
C5_Witness ==
    \E r \in Rows :
        /\ r.op = "deposit"
        /\ AmountOf(r) > 0
        /\ Logged(engine, r.tx)
        /\ engine.transactions[r.tx].client # r.client
        /\ ~HasAccount(engine, r.client)
        /\ ~HasAccount(Post(r), r.client)

\* C6: a withdrawal that passes the gate for an existing client is applied
\* (available -= amount, held untouched, the entry stays logged) exactly when
\* amount <= available; otherwise no account changes and the tx id is absent
\* from the log afterwards, so that a deposit or withdrawal may use it again
\* and a dispute, resolve or chargeback naming it is rejected by the gate as
\* an unknown transaction.
C6_WithdrawalAppliedIffCovered ==
    \A r \in Rows :
        (r.op = "withdrawal" /\ Passes(r) /\ HasAccount(engine, r.client))
        => LET amount == AmountOf(r)
               info == engine.clients[r.client]
               post == Post(r)
           IN  IF amount <= info.available
               THEN /\ post.clients[r.client].available = info.available - amount
                    /\ post.clients[r.client].held = info.held
                    /\ Logged(post, r.tx)
               ELSE /\ post.clients = engine.clients
                    /\ ~Logged(post, r.tx)
                    /\ \A op \in {"deposit", "withdrawal"} :
                           valid(post, op, r.tx, r.client, amount)
                    /\ Logged(process(post, Row("deposit", r.client, r.tx, r.amount)),
                              r.tx)
                    /\ \A op \in DisputeFamily : \A c \in ClientIds :
                           /\ ~valid(post, op, r.tx, c, 0)
                           /\ process(post, Row(op, c, r.tx, None)) = post

\* A withdrawal passes the gate for a client whose available funds are
\* positive and smaller than the amount, and its tx id is not logged after it.
C6_Witness ==
    \E r \in Rows :
        /\ r.op = "withdrawal"
        /\ Passes(r)
        /\ HasAccount(engine, r.client)
        /\ engine.clients[r.client].available > 0
        /\ AmountOf(r) > engine.clients[r.client].available
        /\ ~Logged(Post(r), r.tx)

\* What C7 says of a withdrawal row r naming a client without an account: no
\* account is created or changed, the tx id is not logged afterwards, a
\* dispute of that tx id then moves no funds, and a deposit to that client then
\* creates the account with available = the deposit's amount, held = 0 and
\* locked = false (and a dispute of the withdrawal's tx id after that deposit
\* still moves no funds).
C7_Outcome(r) ==
    LET post == Post(r)
    IN  /\ DOMAIN post.clients = DOMAIN engine.clients
        /\ post.clients = engine.clients
        /\ ~Logged(post, r.tx)
        /\ \A c \in ClientIds :
               process(post, Row("dispute", c, r.tx, None)).clients = post.clients
        /\ \A tx2 \in TxIds : \A a \in 0..MaxAmount :
               ~Logged(post, tx2)
               => LET p2 == process(post, Row("deposit", r.client, tx2, Some(a)))
                  IN  /\ HasAccount(p2, r.client)
                      /\ p2.clients[r.client]
                            = [available |-> a, held |-> 0, locked |-> FALSE]
                      /\ tx2 # r.tx
                         => process(p2, Row("dispute", r.client, r.tx, None)).clients
                               = p2.clients

\* C7 as stated: every withdrawal naming a client that has no account has
\* that outcome.
C7_WithdrawalWithoutAccount ==
    \A r \in Rows :
        (r.op = "withdrawal" /\ ~HasAccount(engine, r.client))
        => C7_Outcome(r)

\* C7 amended: every withdrawal that names a client that has no account, under
\* a tx id that is not already in the log, has that outcome.
C7_FreshWithdrawalWithoutAccount ==
    \A r \in Rows :
        ( /\ r.op = "withdrawal"
          /\ ~HasAccount(engine, r.client)
          /\ ~Logged(engine, r.tx) )
        => C7_Outcome(r)

\* Another client has funds, and a withdrawal of a positive amount under a
\* fresh tx id passes the gate for a client that has no account.
C7_Witness ==
    \E r \in Rows : \E c \in ClientIds :
        /\ HasAccount(engine, c)
        /\ engine.clients[c].available > 0
        /\ r.op = "withdrawal"
        /\ AmountOf(r) > 0
        /\ Passes(r)
        /\ ~HasAccount(engine, r.client)
        /\ ~Logged(Post(r), r.tx)
        /\ ~HasAccount(Post(r), r.client)

\* C8: a dispute that passes the gate on a logged, not-open transaction owned
\* by the row's client, of logged signed amount a: the client has an account;
\* if a > available its funds are unmoved, otherwise available -= a and
\* held += a; either way the transaction is open afterwards and no other
\* client's account changes.
C8_DisputeMovesFunds ==
    \A r \in Rows :
        (r.op = "dispute" /\ Passes(r) /\ NamesOwnClosedTx(r))
        => /\ HasAccount(engine, r.client)
           /\ LET a == engine.transactions[r.tx].amount
                  info == engine.clients[r.client]
                  post == Post(r)
              IN  /\ IF a > info.available
                     THEN /\ post.clients[r.client].available = info.available
                          /\ post.clients[r.client].held = info.held
                     ELSE /\ post.clients[r.client].available = info.available - a
                          /\ post.clients[r.client].held = info.held + a
                  /\ r.tx \in post.disputed
                  /\ DOMAIN post.clients = DOMAIN engine.clients
                  /\ \A c \in DOMAIN engine.clients :
                         c # r.client => post.clients[c] = engine.clients[c]

\* A dispute of a logged withdrawal passes the gate, raises available and
\* takes held below zero.
C8_Witness ==
    \E r \in Rows :
        /\ r.op = "dispute"
        /\ Passes(r)
        /\ NamesOwnClosedTx(r)
        /\ engine.transactions[r.tx].amount < 0
        /\ Post(r).clients[r.client].held < 0
        /\ Post(r).clients[r.client].available
              > engine.clients[r.client].available
        /\ r.tx \in Post(r).disputed

\* C9: when a dispute of a transaction moves funds (available -= a,
\* held += a) and the resolve of that transaction by the same client follows
\* at once, the account's available and held are what they were before the
\* dispute, and the transaction is no longer open.
C9_ResolveUndoesDispute ==
    \A r \in Rows :
        ( /\ r.op = "dispute"
          /\ Passes(r)
          /\ NamesOwnClosedTx(r)
          /\ HasAccount(engine, r.client)
          /\ engine.transactions[r.tx].amount
                <= engine.clients[r.client].available )
        => LET info == engine.clients[r.client]
               resolved == process(Post(r), Row("resolve", r.client, r.tx, None))
           IN  /\ resolved.clients[r.client].available = info.available
               /\ resolved.clients[r.client].held = info.held
               /\ r.tx \notin resolved.disputed

\* C10: for every client, total = available + held is the sum of the net
\* effects applied to it (deposits entered, minus withdrawals entered, minus
\* the logged amounts its chargebacks took away), and no dispute or resolve
\* record changes the total of any client.
C10_TotalIsSumOfNetEffects ==
    /\ \A c \in ClientIds : TotalOf(engine, c) = net[c]
    /\ \A r \in Rows :
           r.op \in {"dispute", "resolve"}
           => \A c \in ClientIds : TotalOf(Post(r), c) = TotalOf(engine, c)

\* A client that has deposited, withdrawn and been charged back holds a
\* nonzero total.
C10_Witness ==
    \E c \in DOMAIN engine.clients :
        /\ engine.clients[c].locked
        /\ total(engine.clients[c]) # 0
        /\ \E t \in DOMAIN engine.transactions :
               /\ engine.transactions[t].client = c
               /\ engine.transactions[t].amount < 0
        /\ \E t \in DOMAIN engine.transactions :
               /\ engine.transactions[t].client = c
               /\ engine.transactions[t].amount > 0

\* C11: held is changed only by a dispute, resolve or chargeback: no deposit
\* or withdrawal record, applied or rejected, changes held of an account
\* that exists, an account that a record creates starts with held = 0, and
\* whenever a record changes held of an account that exists the record is a
\* dispute, resolve or chargeback.
C11_HeldOnlyByDisputeFamily ==
    \A r \in Rows : \A c \in ClientIds :
        /\ (r.op \in {"deposit", "withdrawal"} /\ HasAccount(engine, c))
           => /\ HasAccount(Post(r), c)
              /\ Post(r).clients[c].held = engine.clients[c].held
        /\ (~HasAccount(engine, c) /\ HasAccount(Post(r), c))
           => Post(r).clients[c].held = 0
        /\ ( /\ HasAccount(engine, c)
             /\ HasAccount(Post(r), c)
             /\ Post(r).clients[c].held # engine.clients[c].held )
           => r.op \in DisputeFamily

\* A client with funds held is sent a deposit of a positive amount under a
\* fresh tx id; the deposit is applied and held is as before.
C11_Witness ==
    \E r \in Rows :
        /\ r.op = "deposit"
        /\ AmountOf(r) > 0
        /\ Passes(r)
        /\ HasAccount(engine, r.client)
        /\ engine.clients[r.client].held > 0
        /\ Post(r).clients[r.client].available
              = engine.clients[r.client].available + AmountOf(r)
        /\ Post(r).clients[r.client].held = engine.clients[r.client].held

\* C12: a dispute, resolve or chargeback that names a tx id absent from the
\* log, a dispute of a transaction that is already open, and a resolve or
\* chargeback of a transaction that is not open each change nothing: every
\* account, the log and the open-dispute set are as before.
C12_FailedPreconditionIsNoOp ==
    \A r \in Rows :
        ( /\ r.op \in DisputeFamily
          /\ \/ ~Logged(engine, r.tx)
             \/ r.op = "dispute" /\ r.tx \in engine.disputed
             \/ r.op \in {"resolve", "chargeback"} /\ r.tx \notin engine.disputed )
        => /\ Post(r).clients = engine.clients
           /\ Post(r).transactions = engine.transactions
           /\ Post(r).disputed = engine.disputed

\* The two cases the handlers decide happen in one state, each on a record
\* that passes the gate: an unlocked client is sent a dispute of an open
\* transaction it owns, and a chargeback of a logged transaction it owns that
\* is not open and whose amount held would cover; neither changes anything.
C12_Witness ==
    /\ \E r \in Rows :
          /\ r.op = "dispute"
          /\ Passes(r)
          /\ r.tx \in engine.disputed
          /\ engine.transactions[r.tx].client = r.client
          /\ Post(r) = engine
    /\ \E r \in Rows :
          /\ r.op = "chargeback"
          /\ Passes(r)
          /\ NamesOwnClosedTx(r)
          /\ engine.transactions[r.tx].amount <= engine.clients[r.client].held
          /\ Post(r) = engine

\* C13: rejection is idempotent: when a record of one of the five kinds is
\* rejected with a diagnostic, the same record submitted again right after
\* it is rejected with the same diagnostic.
C13_RejectionIdempotent ==
    \A r \in Rows :
        ( /\ r.op \in {"deposit", "withdrawal", "dispute", "resolve", "chargeback"}
          /\ diagnostic(engine, r) # NoDiagnostic )
        => diagnostic(Post(r), r) = diagnostic(engine, r)

\* C14: a record whose kind is not one of the five is dropped without
\* changing any state, whether or not its tx id is logged, and every record
\* that comes after it is processed as if it had not been there.
C14_UnknownKindDropped ==
    \A r \in Rows :
        r.op \notin {"deposit", "withdrawal", "dispute", "resolve", "chargeback"}
        => /\ Post(r) = engine
           /\ \A r2 \in Rows : process(Post(r), r2) = process(engine, r2)

\* An unlocked client is sent a record of an unknown kind, with a positive
\* amount, that names a logged tx id: it passes the gate, reaches the default
\* arm of the match and changes nothing.
C14_Witness ==
    \E r \in Rows :
        /\ r.op = "deposits"
        /\ AmountOf(r) > 0
        /\ Logged(engine, r.tx)
        /\ Passes(r)
        /\ Post(r) = engine

\* C15: a chargeback that passes the gate on an open transaction takes the
\* transaction out of the open-dispute set and leaves the log alone.  When
\* the record's client owns the transaction, of logged amount a: if a > held
\* the account is unchanged, otherwise held -= a, available is unchanged and
\* locked = TRUE, and no other account changes.  When the record's client is
\* not the owner, no account changes.
C15_ChargebackEffect ==
    \A r \in Rows :
        (r.op = "chargeback" /\ Passes(r) /\ r.tx \in engine.disputed)
        => LET tx_entry == engine.transactions[r.tx]
               a == tx_entry.amount
           IN  /\ Post(r).disputed = engine.disputed \ {r.tx}
               /\ Post(r).transactions = engine.transactions
               /\ tx_entry.client # r.client
                  => Post(r).clients = engine.clients
               /\ tx_entry.client = r.client
                  => /\ HasAccount(engine, r.client)
                     /\ DOMAIN Post(r).clients = DOMAIN engine.clients
                     /\ \A c \in DOMAIN engine.clients \ {r.client} :
                           Post(r).clients[c] = engine.clients[c]
                     /\ IF a > engine.clients[r.client].held
                        THEN Post(r).clients[r.client] = engine.clients[r.client]
                        ELSE Post(r).clients[r.client] =
                               [available |-> engine.clients[r.client].available,
                                held |-> engine.clients[r.client].held - a,
                                locked |-> TRUE]

\* A client has two open transactions it owns, one whose amount exceeds the
\* held funds and one, of a positive amount, that they cover: a chargeback
\* of the first leaves the account as it is, a chargeback of the second
\* takes the amount out of held and locks the account; both close the
\* transaction.
C15_Witness ==
    /\ \E r \in Rows :
          /\ r.op = "chargeback"
          /\ Passes(r)
          /\ r.tx \in engine.disputed
          /\ engine.transactions[r.tx].client = r.client
          /\ engine.transactions[r.tx].amount > engine.clients[r.client].held
          /\ Post(r).clients = engine.clients
          /\ r.tx \notin Post(r).disputed
    /\ \E r \in Rows :
          /\ r.op = "chargeback"
          /\ Passes(r)
          /\ r.tx \in engine.disputed
          /\ engine.transactions[r.tx].client = r.client
          /\ engine.transactions[r.tx].amount > 0
          /\ engine.transactions[r.tx].amount <= engine.clients[r.client].held
          /\ Post(r).clients[r.client].locked
          /\ r.tx \notin Post(r).disputed

\* Row r is a dispute that passes the gate on a logged transaction that is
\* not open and is owned by another client than the row's.
MismatchedDispute(r) ==
    /\ r.op = "dispute"
    /\ Passes(r)
    /\ Logged(engine, r.tx)
    /\ r.tx \notin engine.disputed
    /\ engine.transactions[r.tx].client # r.client

C17_WithdrawalDisputeNeverBlocked ==
    \A r \in Rows :
        ( /\ r.op = "dispute"
          /\ Passes(r)
          /\ NamesOwnClosedTx(r)
          /\ engine.transactions[r.tx].amount < 0 )
        => LET a == engine.transactions[r.tx].amount
               info == engine.clients[r.client]
           IN  /\ ~(a > info.available)
               /\ Post(r).clients[r.client].available = info.available - a
               /\ Post(r).clients[r.client].held = info.held + a

\* C18: a locked account is frozen: once the account of a client is locked,
\* no record of any kind, addressed to this client or to another, changes
\* its available or its held funds.
C18_LockedAccountFrozen ==
    \A r \in Rows : \A c \in ClientIds :
        client_locked(engine, c)
        => /\ HasAccount(Post(r), c)
           /\ Post(r).clients[c].available = engine.clients[c].available
           /\ Post(r).clients[c].held = engine.clients[c].held

\* A locked client has an open transaction it owns, of a positive amount
\* that its held funds cover, and a transaction that is not open: its own
\* resolve of the first is refused by the gate, and a dispute of the second
\* by another client passes the gate and marks it open; the locked account
\* is as before after either.
C18_Witness ==
    \E c \in ClientIds :
        /\ client_locked(engine, c)
        /\ \E r \in Rows :
              /\ r.op = "resolve"
              /\ r.client = c
              /\ r.tx \in engine.disputed
              /\ engine.transactions[r.tx].client = c
              /\ engine.transactions[r.tx].amount > 0
              /\ engine.transactions[r.tx].amount <= engine.clients[c].held
              /\ ~Passes(r)
              /\ Post(r) = engine
        /\ \E r \in Rows :
              /\ r.op = "dispute"
              /\ r.client # c
              /\ Passes(r)
              /\ Logged(engine, r.tx)
              /\ engine.transactions[r.tx].client = c
              /\ r.tx \in Post(r).disputed \ engine.disputed
              /\ Post(r).clients[c] = engine.clients[c]

\* C19: a resolve or chargeback changes funds only if the dispute that
\* opened the transaction moved funds: after a dispute that passes the gate
\* on a logged transaction that is not open and is refused after marking it
\* open, for a client mismatch or for an amount above the available funds,
\* a resolve or chargeback of that tx id changes no account's available,
\* held or locked.
C19_CloseMovesOnlyWhatDisputeMoved ==
    \A r \in Rows :
        ( /\ r.op = "dispute"
          /\ Passes(r)
          /\ Logged(engine, r.tx)
          /\ r.tx \notin engine.disputed
          /\ diagnostic(engine, r) \in
                {"Disputed transaction doesn't match the client id",
                 "Disputed amount larger than available funds"} )
        => \A r2 \in Rows :
              (r2.op \in {"resolve", "chargeback"} /\ r2.tx = r.tx)
              => process(Post(r), r2).clients = Post(r).clients

\* C20: every tx id in the open-dispute set is in the log, and the log only
\* grows: over every record, each logged entry stays in the log with the
\* same client and amount, so the removal of the entry of a refused
\* withdrawal never takes out an open transaction, and the only tx id a
\* record can add is its own, by a deposit or a withdrawal.
C20_OpenTxLoggedAndLogStable ==
    /\ engine.disputed \subseteq DOMAIN engine.transactions
    /\ \A r \in Rows :
          /\ \A t \in DOMAIN engine.transactions :
                /\ Logged(Post(r), t)
                /\ Post(r).transactions[t] = engine.transactions[t]
          /\ Post(r).disputed \subseteq DOMAIN Post(r).transactions
          /\ \A t \in DOMAIN Post(r).transactions \ DOMAIN engine.transactions :
                t = r.tx /\ r.op \in {"deposit", "withdrawal"}

\* While a transaction is open, an unlocked client is sent a withdrawal that
\* its available funds do not cover, under a fresh tx id: the entry logged
\* for it is removed again and the log and the open-dispute set are as
\* before.
C20_Witness ==
    \E r \in Rows :
        /\ r.op = "withdrawal"
        /\ Passes(r)
        /\ engine.disputed # {}
        /\ HasAccount(engine, r.client)
        /\ AmountOf(r) > engine.clients[r.client].available
        /\ Post(r).transactions = engine.transactions
        /\ Post(r).disputed = engine.disputed

====
